---- MODULE Spec2Model ----
(***************************************************************************)
(* A model of MailMergeGenerator (src/Project_S2.py): the session state    *)
(* (template text, delimiters, placeholder list, rows, error log), the     *)
(* output directory it writes to, and one action per public method.        *)
(*                                                                         *)
(* Python strings are sequences of one-character strings; a dict is a      *)
(* function whose DOMAIN is its key set; a list is a sequence.             *)
(***************************************************************************)
EXTENDS Integers, Sequences, FiniteSets, TLC

(***************************************************************************)
(* Bounds of the model.                                                    *)
(***************************************************************************)
\* the session makes at most this many calls
MaxCalls == 4
\* the short template texts have at most this many characters
MaxLen == 4
\* earlier runs have left numbered files up to this suffix
MaxOld == 3
(***************************************************************************)
(* Python string and list primitives.                                      *)
(***************************************************************************)
NL == "\n"

\* None, as a cell value of a short csv row: no string over characters equals it
None == <<"<None>">>

\* str(value)
PyStr(value) == IF value = None THEN <<"N", "o", "n", "e">> ELSE value

\* text[p:].startswith(w), p 1-based
StartsAt(text, p, w) ==
    /\ p + Len(w) - 1 <= Len(text)
    /\ \A i \in 1..Len(w) : text[p + i - 1] = w[i]

SetMin(S) == CHOOSE x \in S : \A y \in S : x <= y

\* the positions q >= p where old occurs in content
Occurrences(content, p, old) == { q \in p..Len(content) : StartsAt(content, q, old) }

RECURSIVE ReplaceFrom(_, _, _, _)
\* content.replace(old, new) for a non-empty old, scanning from position p:
\* leftmost occurrences, not overlapping
ReplaceFrom(content, p, old, new) ==
    IF Occurrences(content, p, old) = {} THEN SubSeq(content, p, Len(content))
    ELSE LET q == SetMin(Occurrences(content, p, old))
         IN  SubSeq(content, p, q - 1) \o new
                 \o ReplaceFrom(content, q + Len(old), old, new)

\* content.replace("", new): new before every character and at the end
Interleave(content, new) ==
    LET b == Len(new) + 1 IN
    [i \in 1..((Len(content) + 1) * Len(new) + Len(content)) |->
        IF (i - 1) % b < Len(new) THEN new[((i - 1) % b) + 1]
        ELSE content[((i - 1) \div b) + 1]]

\* str.replace(old, new)
Replace(content, old, new) ==
    IF old = <<>> THEN Interleave(content, new)
    ELSE ReplaceFrom(content, 1, old, new)

RECURSIVE Dedup(_, _)
\* list(dict.fromkeys(matches)): first occurrences, in order
Dedup(matches, seen) ==
    IF matches = <<>> THEN <<>>
    ELSE IF Head(matches) \in seen THEN Dedup(Tail(matches), seen)
         ELSE <<Head(matches)>> \o Dedup(Tail(matches), seen \cup {Head(matches)})

RECURSIVE JoinWith(_, _)
\* sep.join(parts)
JoinWith(sep, parts) ==
    IF parts = <<>> THEN <<>>
    ELSE IF Len(parts) = 1 THEN Head(parts)
         ELSE Head(parts) \o sep \o JoinWith(sep, Tail(parts))

IsWhite(c) == c \in {" ", NL}

RECURSIVE LStrip(_)
LStrip(s) == IF s # <<>> /\ IsWhite(Head(s)) THEN LStrip(Tail(s)) ELSE s

RECURSIVE RStrip(_)
RStrip(s) ==
    IF s # <<>> /\ IsWhite(s[Len(s)]) THEN RStrip(SubSeq(s, 1, Len(s) - 1)) ELSE s

\* str.strip()
Strip(s) == RStrip(LStrip(s))

(***************************************************************************)
(* re.findall(re.escape(start) + '(.*?)' + re.escape(end), text)           *)
(***************************************************************************)
\* the positions where the lazy group of a match starting at q may end: the end
\* delimiter follows, '.' has matched no newline, and after an empty match at q
\* (adv) the match is not empty again
GroupEnds(text, q, start, end, adv) ==
    { k \in (q + Len(start))..(Len(text) + 1) :
        /\ StartsAt(text, k, end)
        /\ \A i \in (q + Len(start))..(k - 1) : text[i] # NL
        /\ (adv => k + Len(end) > q) }

MatchAt(text, q, start, end, adv) ==
    StartsAt(text, q, start) /\ GroupEnds(text, q, start, end, adv) # {}

RECURSIVE FindAll(_, _, _, _, _)
FindAll(text, p, adv, start, end) ==
    IF p > Len(text) + 1 THEN <<>>
    ELSE IF MatchAt(text, p, start, end, adv)
         THEN LET k == SetMin(GroupEnds(text, p, start, end, adv))
                  e == k + Len(end)
              IN  <<SubSeq(text, p + Len(start), k - 1)>>
                      \o FindAll(text, e, e = p, start, end)
         ELSE FindAll(text, p + 1, FALSE, start, end)

\* _extract_placeholders: the value assigned to self.placeholders
ExtractPlaceholders(text, delimiters) ==
    Dedup(FindAll(text, 1, FALSE, delimiters[1], delimiters[2]), {})

(***************************************************************************)
(* _merge_template                                                         *)
(***************************************************************************)
NOT_FOUND == <<"_", "N", "O", "T", "_", "F", "O", "U", "N", "D">>

\* data.get(placeholder, f"{placeholder}_NOT_FOUND")
RowGet(data, placeholder) ==
    IF placeholder \in DOMAIN data THEN data[placeholder] ELSE placeholder \o NOT_FOUND

\* "return content" inside the loop: only the first placeholder is substituted
MergeFold_FirstOnly(content, phs, delimiters, data) ==
    IF phs = <<>> THEN content
    ELSE Replace(content,
                 delimiters[1] \o Head(phs) \o delimiters[2],
                 PyStr(RowGet(data, Head(phs))))

RECURSIVE MergeFold_RightToLeft(_, _, _, _)
\* the placeholders taken last to first
MergeFold_RightToLeft(content, phs, delimiters, data) ==
    IF phs = <<>> THEN content
    ELSE MergeFold_RightToLeft(
            Replace(content,
                    delimiters[1] \o phs[Len(phs)] \o delimiters[2],
                    PyStr(RowGet(data, phs[Len(phs)]))),
            SubSeq(phs, 1, Len(phs) - 1), delimiters, data)

RECURSIVE MergeFold(_, _, _, _)
\* the loop of _merge_template over the placeholders still to do
MergeFold(content, phs, delimiters, data) ==
    IF phs = <<>> THEN content
    ELSE MergeFold(
            Replace(content,
                    delimiters[1] \o Head(phs) \o delimiters[2],
                    PyStr(RowGet(data, Head(phs)))),
            Tail(phs), delimiters, data)

\* _merge_template: the text it returns
MergeTemplate(content, phs, delimiters, data) == MergeFold(content, phs, delimiters, data)

(***************************************************************************)
(* Formatting helpers of the output writer.                                *)
(***************************************************************************)
Digit(d) == <<"0", "1", "2", "3", "4", "5", "6", "7", "8", "9">>[d + 1]

RECURSIVE Decimal(_)
\* f"{n}" for a natural number n
Decimal(n) == IF n < 10 THEN <<Digit(n)>> ELSE Decimal(n \div 10) \o <<Digit(n % 10)>>

\* "%02d"
TwoDigits(n) == <<Digit((n \div 10) % 10), Digit(n % 10)>>

\* datetime.now().strftime("%Y%m%d_%H%M%S"), for a clock reading of t seconds
\* after midnight of 2024-01-01
Strftime(t) ==
    <<"2", "0", "2", "4", "0", "1", "0", "1", "_">>
        \o TwoDigits((t \div 3600) % 24) \o TwoDigits((t \div 60) % 60) \o TwoDigits(t % 60)

output_dir == <<"o", "u", "t", "p", "u", "t">>

\* os.path.join(self.output_dir, filename), filename relative
PathJoin(dir, filename) == dir \o <<"/">> \o filename

TXT == <<".", "t", "x", "t">>

\* f"{base_filename}.txt"
FirstFilename(base_filename) == base_filename \o TXT

\* f"{base_filename}_{counter}.txt"
NumberedFilename(base_filename, counter) ==
    base_filename \o <<"_">> \o Decimal(counter) \o TXT

\* f"document_{i}": the index of enumerate taken as it is
DocumentName_ZeroBased(i) ==
    <<"d", "o", "c", "u", "m", "e", "n", "t", "_">> \o Decimal(i - 1)

\* f"document_{i+1}" (i is the 1-based index here)
DocumentName(i) == <<"d", "o", "c", "u", "m", "e", "n", "t", "_">> \o Decimal(i)

\* f"combined_output_{timestamp}.txt"
CombinedFilename(timestamp) ==
    <<"c", "o", "m", "b", "i", "n", "e", "d", "_", "o", "u", "t", "p", "u", "t", "_">>
        \o timestamp \o TXT

\* "\n" + "="*80 + "\n"
Separator == <<NL>> \o [i \in 1..80 |-> "="] \o <<NL>>

(***************************************************************************)
(* The files the session may be pointed at.  A template path is missing,   *)
(* unreadable, or holds text; a csv path is missing, unreadable, or holds  *)
(* a header and records (what csv.reader yields).                          *)
(***************************************************************************)
Ka == <<"a">>
Kb == <<"b">>
Kd == <<"d">>

TemplatePaths == { <<"t", "0">>, <<"t", "1">>, <<"t", "2">>, <<"t", "3">> }

\* t0 does not exist, t1 cannot be decoded, t2 is an empty file,
\* t3 holds {{a}}{{b}}<a>
TemplateFile(path) ==
    CASE path = <<"t", "0">> -> [kind |-> "missing", text |-> <<>>]
      [] path = <<"t", "1">> -> [kind |-> "unreadable", text |-> <<>>]
      [] path = <<"t", "2">> -> [kind |-> "text", text |-> <<>>]
      [] OTHER ->
            [kind |-> "text",
             text |-> <<"{", "{", "a", "}", "}", "{", "{", "b", "}", "}", "<", "a", ">">>]

CsvPaths == { <<"c", "0">>, <<"c", "1">>, <<"c", "2">>, <<"c", "3">> }

\* c0 does not exist, c1 cannot be decoded, c2 is a header line only,
\* c3 is the lines "a,d", " n 1,1", "" and "n_1": its last record is short
CsvFile(path) ==
    CASE path = <<"c", "0">> -> [kind |-> "missing", header |-> <<>>, records |-> <<>>]
      [] path = <<"c", "1">> -> [kind |-> "unreadable", header |-> <<>>, records |-> <<>>]
      [] path = <<"c", "2">> -> [kind |-> "text", header |-> <<Ka, Kd>>, records |-> <<>>]
      [] OTHER ->
            [kind |-> "text", header |-> <<Ka, Kd>>,
             records |-> << << <<" ", "n", " ", "1">>, <<"1">> >>, <<>>,
                            << <<"n", "_", "1">> >> >>]

DEFAULT_DELIMITERS == << <<"{", "{">>, <<"}", "}">> >>

\* the delimiter pairs set_delimiters is called with
DelimiterChoices == { DEFAULT_DELIMITERS, << <<"<">>, <<">">> >>, << <<>>, <<>> >> }

\* the filename_field arguments generate_output is called with: none, two
\* columns of the rows, and a name that is no column
FieldChoices == { None, Ka, Kd, Kb }

\* str(e) of the exceptions the environment raises
ReadExc == <<"'utf-8' codec can't decode byte">>
MergeExc == <<"">>
StripExc == <<"'NoneType' object has no attribute 'strip'">>
WriteExc == <<"[Errno 28] No space left on device">>

(***************************************************************************)
(* csv.DictReader                                                          *)
(***************************************************************************)
\* one row: the header's names keyed to the record's cells, None for the cells
\* a short record lacks
DictRow(header, record) ==
    [k \in {header[j] : j \in 1..Len(header)} |->
        LET j == CHOOSE j \in 1..Len(header) :
                    header[j] = k /\ \A m \in (j + 1)..Len(header) : header[m] # k
        IN  IF j <= Len(record) THEN record[j] ELSE None]

RECURSIVE DictReader(_, _)
\* [row for row in reader]: empty records are skipped
DictReader(header, records) ==
    IF records = <<>> THEN <<>>
    ELSE IF Head(records) = <<>> THEN DictReader(header, Tail(records))
         ELSE <<DictRow(header, Head(records))>> \o DictReader(header, Tail(records))

(***************************************************************************)
(* The error log's entries: the f-string's literal text, the row index it  *)
(* interpolates (0 when it has none) and the text it interpolates.         *)
(***************************************************************************)
Err(msg, arg) == [msg |-> msg, row |-> 0, arg |-> arg]
RowErr(i, arg) == [msg |-> "Error processing row {i+1}: ", row |-> i, arg |-> arg]

(***************************************************************************)
(* State.  The first six variables are the fields of MailMergeGenerator    *)
(* (output_dir never changes and is a definition).  dir_exists and files   *)
(* are the output directory on disk (path -> content), now is the clock in *)
(* seconds, and call records the last call: its name, its arguments, what  *)
(* it returned ("True", "False", "None", or "list" with the list in value) *)
(* and the files it opened for writing, in order; calls counts the calls.  *)
(* frame holds the locals of a _generate_individual_files call that is     *)
(* followed statement by statement, and where it stands.                   *)
(***************************************************************************)
VARIABLES template_content, csv_data, placeholders, current_delimiters, errors,
          dir_exists, files, now, call, calls, frame

session == <<template_content, csv_data, placeholders, current_delimiters>>
disk == <<dir_exists, files>>
vars == <<template_content, csv_data, placeholders, current_delimiters, errors,
          dir_exists, files, now, call, calls, frame>>

\* no call is being followed statement by statement
NoFrame ==
    [pc |-> "idle", i |-> 0, filename_field |-> None, base_filename |-> <<>>,
     output_path |-> <<>>, counter |-> 0, content |-> <<>>, success_count |-> 0,
     writes |-> <<>>]

Called(op, args, ret) ==
    [op |-> op, args |-> args, ret |-> ret, value |-> <<>>, writes |-> <<>>]

\* a file of the output directory left by an earlier run
OldText == <<"o", "l", "d">>
OldFile(base_filename) == PathJoin(output_dir, FirstFilename(base_filename))

\* the output directory before the session starts: absent, or holding files
InitialDisks ==
    { [dir_exists |-> FALSE, files |-> <<>>],
      [dir_exists |-> TRUE,
       files |-> [p \in {OldFile(<<"n", "_", "1">>),
                          PathJoin(output_dir, NumberedFilename(<<"n", "_", "1">>, 2))}
                    |-> OldText]] }

Init ==
    /\ template_content = <<>>
    /\ csv_data = <<>>
    /\ placeholders = <<>>
    /\ current_delimiters = DEFAULT_DELIMITERS
    /\ errors = <<>>
    /\ \E d \in InitialDisks : dir_exists = d.dir_exists /\ files = d.files
    /\ now = 35999
    /\ call = Called("__init__", <<>>, "None")
    /\ calls = 0
    /\ frame = NoFrame

\* every call counts against the budget of calls, and runs as one step
Step == calls < MaxCalls /\ calls' = calls + 1 /\ UNCHANGED frame

\* the log restarted at the new entry
Record_Restart(log, entry) == <<entry>>

\* self.errors.append(entry)
Record(log, entry) == Append(log, entry)

\* open(path, 'w') followed by file.write(content): the directory afterwards
WriteFile(fs, path, content) ==
    [p \in DOMAIN fs \cup {path} |-> IF p = path THEN content ELSE fs[p]]

(***************************************************************************)
(* load_template                                                           *)
(***************************************************************************)
load_template(template_path) ==
    LET f == TemplateFile(template_path) IN
    /\ Step
    /\ CASE f.kind = "missing" ->
              /\ errors' = Record(errors, Err("Template file not found: ", template_path))
              /\ call' = Called("load_template", <<template_path>>, "False")
              /\ UNCHANGED <<template_content, placeholders>>
         [] f.kind = "unreadable" ->
              /\ errors' = Record(errors, Err("Error reading template: ", ReadExc))
              /\ call' = Called("load_template", <<template_path>>, "False")
              /\ UNCHANGED <<template_content, placeholders>>
         [] OTHER ->
              /\ template_content' = f.text
              /\ placeholders' = ExtractPlaceholders(f.text, current_delimiters)
              /\ call' = Called("load_template", <<template_path>>, "True")
              /\ UNCHANGED errors
    /\ UNCHANGED <<csv_data, current_delimiters, dir_exists, files, now>>

(***************************************************************************)
(* set_delimiters                                                          *)
(***************************************************************************)
set_delimiters(start, end) ==
    /\ Step
    /\ current_delimiters' = <<start, end>>
    /\ placeholders' = IF template_content # <<>>
                       THEN ExtractPlaceholders(template_content, <<start, end>>)
                       ELSE placeholders
    /\ call' = Called("set_delimiters", <<start, end>>, "None")
    /\ UNCHANGED <<template_content, csv_data, errors, dir_exists, files, now>>

(***************************************************************************)
(* load_csv_data and _validate_csv_headers                                 *)
(***************************************************************************)
\* only the first missing name
MissingColumns_FirstOnly(phs, rows) ==
    LET Absent(ph) == ph \notin DOMAIN rows[1]
        missing == SelectSeq(phs, Absent)
    IN  IF missing = <<>> THEN <<>> ELSE <<missing[1]>>

\* missing = [ph for ph in self.placeholders if ph not in self.csv_data[0]]
MissingColumns(phs, rows) ==
    LET Absent(ph) == ph \notin DOMAIN rows[1] IN SelectSeq(phs, Absent)

\* "return False" without the append
ValidateCsvHeaders_Silent(phs, rows, log) ==
    IF MissingColumns(phs, rows) # <<>> THEN <<"False", log>> ELSE <<"True", log>>

\* _validate_csv_headers: <<return value, the error log afterwards>>
ValidateCsvHeaders(phs, rows, log) ==
    LET missing == MissingColumns(phs, rows) IN
    IF missing # <<>>
    THEN <<"False",
           Record(log, Err("CSV missing required columns: ", JoinWith(<<",", " ">>, missing)))>>
    ELSE <<"True", log>>

\* the rows load_csv_data assigns to self.csv_data
ParsedRows(f) == DictReader(f.header, f.records)

\* load_csv_data without the empty test: self.csv_data[0] raises IndexError
CheckRows_NoEmptyTest(phs, rows, log) ==
    IF rows = <<>>
    THEN <<"False", Append(log, Err("Error reading CSV: ", <<"list index out of range">>))>>
    ELSE ValidateCsvHeaders(phs, rows, log)

\* load_csv_data once the rows are read: <<return value, the error log afterwards>>
CheckRows(phs, rows, log) ==
    IF rows = <<>> THEN <<"False", Record(log, Err("CSV file contains no data", <<>>))>>
    ELSE ValidateCsvHeaders(phs, rows, log)

load_csv_data(csv_path) ==
    LET f == CsvFile(csv_path) IN
    /\ Step
    /\ CASE f.kind = "missing" ->
              /\ errors' = Record(errors, Err("CSV file not found: ", csv_path))
              /\ call' = Called("load_csv_data", <<csv_path>>, "False")
              /\ UNCHANGED csv_data
         [] f.kind = "unreadable" ->
              /\ errors' = Record(errors, Err("Error reading CSV: ", ReadExc))
              /\ call' = Called("load_csv_data", <<csv_path>>, "False")
              /\ UNCHANGED csv_data
         [] OTHER ->
              /\ csv_data' = ParsedRows(f)
              /\ LET v == CheckRows(placeholders, csv_data', errors) IN
                 /\ errors' = v[2]
                 /\ call' = Called("load_csv_data", <<csv_path>>, v[1])
    /\ UNCHANGED <<template_content, placeholders, current_delimiters, dir_exists, files, now>>

(***************************************************************************)
(* get_errors, clear_errors                                                *)
(***************************************************************************)
\* the list get_errors returns
GetErrors(log) == log

get_errors ==
    /\ Step
    /\ call' = [Called("get_errors", <<>>, "list") EXCEPT !.value = GetErrors(errors)]
    /\ UNCHANGED <<template_content, csv_data, placeholders, current_delimiters, errors,
                   dir_exists, files, now>>

clear_errors ==
    /\ Step
    /\ errors' = <<>>
    /\ call' = Called("clear_errors", <<>>, "None")
    /\ UNCHANGED <<template_content, csv_data, placeholders, current_delimiters,
                   dir_exists, files, now>>

(***************************************************************************)
(* generate_output.  What the environment does to each row is an input:    *)
(* "ok", "merge_error" (_merge_template raises) or "write_error" (the write *)
(* raises after open has created or truncated the file).                   *)
(***************************************************************************)
RowOutcomes == {"ok", "merge_error", "write_error"}
MergeOutcomes == {"ok", "merge_error"}
WriteOutcomes == {"ok", "write_error"}

\* _ready_to_generate without its second test
ReadyToGenerate_TemplateOnly(tc, rows, log) ==
    IF tc = <<>> THEN <<FALSE, Record(log, Err("No template loaded", <<>>))>>
    ELSE <<TRUE, log>>

\* _ready_to_generate: <<return value, the error log afterwards>>
ReadyToGenerate(tc, rows, log) ==
    IF tc = <<>> THEN <<FALSE, Record(log, Err("No template loaded", <<>>))>>
    ELSE IF rows = <<>> THEN <<FALSE, Record(log, Err("No CSV data loaded", <<>>))>>
    ELSE <<TRUE, log>>

\* os.path.exists(path)
Exists(fs, path) == path \in DOMAIN fs

\* the path built first, without the existence probe
UnusedPath_NoProbe(fs, base_filename, output_path, counter) == output_path

RECURSIVE UnusedPath(_, _, _, _)
\* the while loop of _generate_individual_files: the path it leaves in output_path
UnusedPath(fs, base_filename, output_path, counter) ==
    IF Exists(fs, output_path)
    THEN UnusedPath(fs, base_filename,
                    PathJoin(output_dir, NumberedFilename(base_filename, counter)),
                    counter + 1)
    ELSE output_path

\* filename_field and filename_field in row
UseField(filename_field, row) ==
    filename_field # None /\ filename_field # <<>> /\ filename_field \in DOMAIN row

\* row[filename_field].strip().replace(' ', '_')
FieldBase(value) == Replace(Strip(value), <<" ">>, <<"_">>)

\* a file opened for writing: by which row (0: the combined file), under which
\* base name, whether the path was unused, and whether the write completed
Written(i, base_filename, path, fs, done) ==
    [row |-> i, base |-> base_filename, path |-> path, fresh |-> ~Exists(fs, path),
     done |-> done]

\* the substitutions made on the field itself: the last merged text stays in it
TemplateAfterMerge_InPlace(tc, merged) ==
    IF Len(merged) = 0 THEN tc ELSE merged[Len(merged)]

\* content = self.template_content: the substitutions are made on a local copy,
\* so the field holds after the merges what it held before
TemplateAfterMerge(tc, merged) == tc

\* self._merge_template(row) for every row of self.csv_data
MergedRows(tc, phs, delimiters, rows) ==
    [i \in 1..Len(rows) |-> MergeTemplate(tc, phs, delimiters, rows[i])]

\* one iteration of the loop of _generate_individual_files, on
\* acc = [files, errors, writes, success_count]
IndividualRow(acc, i, row, filename_field, outcome, content) ==
    IF outcome = "merge_error"
    THEN [acc EXCEPT !.errors = Record(@, RowErr(i, MergeExc))]
    ELSE IF UseField(filename_field, row) /\ row[filename_field] = None
    THEN [acc EXCEPT !.errors = Record(@, RowErr(i, StripExc))]
    ELSE
      LET base_filename == IF UseField(filename_field, row)
                           THEN FieldBase(row[filename_field])
                           ELSE DocumentName(i)
          output_path == UnusedPath(acc.files, base_filename,
                                    PathJoin(output_dir, FirstFilename(base_filename)), 1)
      IN  CASE outcome = "write_error" ->
                 [acc EXCEPT !.files = WriteFile(@, output_path, <<>>),
                             !.errors = Record(@, RowErr(i, WriteExc)),
                             !.writes = Append(@, Written(i, base_filename, output_path,
                                                          acc.files, FALSE))]
            [] OTHER ->
                 [acc EXCEPT !.files = WriteFile(@, output_path, content),
                             !.success_count = @ + 1,
                             !.writes = Append(@, Written(i, base_filename, output_path,
                                                          acc.files, TRUE))]

RECURSIVE IndividualRows(_, _, _, _, _, _)
\* the loop of _generate_individual_files from row i on; merged[i] is what
\* self._merge_template(row) returns for row i
IndividualRows(acc, i, rows, filename_field, outcomes, merged) ==
    IF i > Len(rows) THEN acc
    ELSE IndividualRows(
            IndividualRow(acc, i, rows[i], filename_field, outcomes[i], merged[i]),
            i + 1, rows, filename_field, outcomes, merged)

\* success only when every row was written
IndividualResult_All(success_count) == IF success_count > 1 THEN "True" ELSE "False"

\* return success_count > 0
IndividualResult(success_count) == IF success_count > 0 THEN "True" ELSE "False"

RECURSIVE CombinedRows(_, _, _, _, _)
\* the loop of _generate_combined_output from row i on, on
\* acc = [combined_content, errors, success_count]
CombinedRows(acc, i, rows, outcomes, merged) ==
    IF i > Len(rows) THEN acc
    ELSE CombinedRows(
            IF outcomes[i] = "merge_error"
            THEN [acc EXCEPT !.errors = Record(@, RowErr(i, MergeExc))]
            ELSE [acc EXCEPT !.combined_content =
                                 @ \o <<merged[i], Separator>>,
                             !.success_count = @ + 1],
            i + 1, rows, outcomes, merged)

\* os.path.join(self.output_dir, f"combined_output_{timestamp}.txt")
CombinedPath(t) == PathJoin(output_dir, CombinedFilename(Strftime(t)))

\* the write of the combined file with "return True" after the try block
CombinedWrite_TrueAfterTry(acc, fs, output_path, final) ==
    IF acc.success_count = 0
    THEN [files |-> fs, errors |-> acc.errors, writes |-> <<>>, ret |-> "False"]
    ELSE IF final = "write_error"
    THEN [files |-> WriteFile(fs, output_path, <<>>),
          errors |-> Append(acc.errors, Err("Error writing combined file: ", WriteExc)),
          writes |-> << [row |-> 0, base |-> <<>>, path |-> output_path,
                         fresh |-> output_path \notin DOMAIN fs, done |-> FALSE] >>,
          ret |-> "True"]
    ELSE [files |-> WriteFile(fs, output_path, JoinWith(<<NL>>, acc.combined_content)),
          errors |-> acc.errors,
          writes |-> << [row |-> 0, base |-> <<>>, path |-> output_path,
                         fresh |-> output_path \notin DOMAIN fs, done |-> TRUE] >>,
          ret |-> "True"]

\* the end of _generate_combined_output: [files, errors, writes, ret]
CombinedWrite(acc, fs, output_path, final) ==
    IF acc.success_count = 0
    THEN [files |-> fs, errors |-> acc.errors, writes |-> <<>>, ret |-> "False"]
    ELSE CASE final = "write_error" ->
                [files |-> WriteFile(fs, output_path, <<>>),
                 errors |-> Record(acc.errors, Err("Error writing combined file: ", WriteExc)),
                 writes |-> <<Written(0, <<>>, output_path, fs, FALSE)>>, ret |-> "False"]
           [] OTHER ->
                [files |-> WriteFile(fs, output_path, JoinWith(<<NL>>, acc.combined_content)),
                 errors |-> acc.errors,
                 writes |-> <<Written(0, <<>>, output_path, fs, TRUE)>>, ret |-> "True"]

\* generate_output called before both loads: nothing but the log changes
generate_not_ready(output_format, filename_field) ==
    LET ready == ReadyToGenerate(template_content, csv_data, errors) IN
    /\ Step
    /\ ~ready[1]
    /\ errors' = ready[2]
    /\ call' = Called("generate_output", <<output_format, filename_field>>, "False")
    /\ UNCHANGED <<template_content, csv_data, placeholders, current_delimiters,
                   dir_exists, files, now>>

\* os.makedirs, then _generate_individual_files
generate_individual(output_format, filename_field) ==
    /\ Step
    /\ output_format # "combined"
    /\ ReadyToGenerate(template_content, csv_data, errors)[1]
    /\ \E merged \in { MergedRows(template_content, placeholders, current_delimiters,
                                   csv_data) },
          outcomes \in [1..Len(csv_data) -> RowOutcomes] :
         \E r \in { IndividualRows(
                      [files |-> files, errors |-> errors, writes |-> <<>>,
                       success_count |-> 0],
                      1, csv_data, filename_field, outcomes, merged) } :
             /\ files' = r.files
             /\ errors' = r.errors
             /\ call' = [Called("generate_output", <<"separate", filename_field>>,
                                 IndividualResult(r.success_count))
                            EXCEPT !.writes = r.writes]
             /\ template_content' = TemplateAfterMerge(template_content, merged)
    /\ dir_exists' = TRUE
    /\ UNCHANGED <<csv_data, placeholders, current_delimiters, now>>

\* the clock reading is an input: the second of the last reading, or the next
\* os.makedirs, then _generate_combined_output
generate_combined(output_format) ==
    /\ Step
    /\ output_format = "combined"
    /\ ReadyToGenerate(template_content, csv_data, errors)[1]
    /\ \E merged \in { MergedRows(template_content, placeholders, current_delimiters,
                                   csv_data) },
          t \in {now, now + 1}, final \in WriteOutcomes,
          outcomes \in [1..Len(csv_data) -> MergeOutcomes] :
         \E r \in { CombinedWrite(
                        CombinedRows(
                            [combined_content |-> <<>>, errors |-> errors,
                             success_count |-> 0],
                            1, csv_data, outcomes, merged),
                        files, CombinedPath(t), final) } :
             /\ now' = t
             /\ files' = r.files
             /\ errors' = r.errors
             /\ call' = [Called("generate_output", <<"combined", None>>, r.ret)
                            EXCEPT !.writes = r.writes]
             /\ template_content' = TemplateAfterMerge(template_content, merged)
    /\ dir_exists' = TRUE
    /\ UNCHANGED <<csv_data, placeholders, current_delimiters>>

generate_output(output_format, filename_field) ==
    \/ generate_not_ready(output_format, filename_field)
    \/ generate_combined(output_format)
    \/ generate_individual(output_format, filename_field)

\* the arguments generate_output is called with: combined mode ignores the field
GenerateArgs == { <<"separate", f>> : f \in FieldChoices } \cup { <<"combined", None>> }

\* one call of the session's interface
Next ==
    \/ \E template_path \in TemplatePaths : load_template(template_path)
    \/ \E d \in DelimiterChoices : set_delimiters(d[1], d[2])
    \/ \E csv_path \in CsvPaths : load_csv_data(csv_path)
    \/ \E a \in GenerateArgs : generate_output(a[1], a[2])
    \/ get_errors
    \/ clear_errors

Spec == Init /\ [][Next]_vars

(***************************************************************************)
(* The engine alone: _extract_placeholders and _merge_template applied to  *)
(* every short template text, each delimiter pair and a few rows.  The     *)
(* initial states are load_template after line 24: the text is read, the   *)
(* placeholder list is not extracted yet.                                  *)
(***************************************************************************)
\* the characters of the short template texts
Alphabet == {"<", ">", "a", NL}

\* every text over the alphabet of at most n characters
BoundedTexts(n) == UNION { [1..k -> Alphabet] : k \in 0..n }

\* "{{a}} and {{a}} and {{b}}"
TextRepeated ==
    <<"{", "{", "a", "}", "}", " ", "a", "n", "d", " ", "{", "{", "a", "}", "}", " ",
      "a", "n", "d", " ", "{", "{", "b", "}", "}">>

\* "<a><b>" and "{{a}}-{{b}}"
TextTwoShort == <<"<", "a", ">", "<", "b", ">">>
TextTwoDefault == <<"{", "{", "a", "}", "}", "-", "{", "{", "b", "}", "}">>

EngineTexts == BoundedTexts(MaxLen) \cup {TextRepeated, TextTwoShort, TextTwoDefault}

\* the rows _merge_template is called with: plain values; a value that is the
\* token of the next placeholder; a value that is a delimiter; a row without
\* the keys; a row whose cell is None
EngineRows ==
    { [k \in {Ka, Kb} |-> IF k = Ka THEN <<"x">> ELSE <<"y">>],
      [k \in {Ka, Kb} |-> IF k = Ka THEN <<"<", "b", ">">> ELSE <<"y">>],
      [k \in {Ka, Kb} |-> IF k = Ka THEN <<"{", "{", "b", "}", "}">> ELSE <<"y">>],
      [k \in {Ka, Kb} |-> IF k = Ka THEN <<">">> ELSE <<"}", "}">>],
      [k \in {Kd} |-> <<"1">>],
      [k \in {Ka, Kb} |-> IF k = Ka THEN <<"x">> ELSE None] }

EngineInit ==
    /\ template_content \in EngineTexts
    /\ current_delimiters \in DelimiterChoices
    /\ placeholders = <<>>
    /\ csv_data = <<>>
    /\ errors = <<>>
    /\ dir_exists = FALSE
    /\ files = <<>>
    /\ now = 35999
    /\ call = Called("__init__", <<>>, "None")
    /\ calls = 0
    /\ frame = NoFrame

\* _extract_placeholders
extract_placeholders ==
    /\ Step
    /\ placeholders' = ExtractPlaceholders(template_content, current_delimiters)
    /\ call' = Called("_extract_placeholders", <<>>, "None")
    /\ UNCHANGED <<template_content, csv_data, current_delimiters, errors, dir_exists,
                   files, now>>

\* _merge_template(data), once the placeholder list is extracted
merge_template(data) ==
    /\ Step
    /\ call.op # "__init__"
    /\ call' = [Called("_merge_template", <<data>>, "str")
                  EXCEPT !.value = MergeTemplate(template_content, placeholders,
                                                 current_delimiters, data)]
    /\ UNCHANGED <<template_content, csv_data, placeholders, current_delimiters, errors,
                   dir_exists, files, now>>

EngineNext ==
    \/ extract_placeholders
    \/ \E data \in EngineRows : merge_template(data)

EngineSpec == EngineInit /\ [][EngineNext]_vars

(***************************************************************************)
(* _generate_individual_files followed statement by statement: one step    *)
(* per row begun, per probe of os.path.exists, per file written, and the   *)
(* return.  The session is loaded; the output directory holds any finite   *)
(* set of files of earlier runs; no other writer touches it.               *)
(***************************************************************************)
\* the paths earlier runs may have left: n_1.txt, n_1_1.txt, ... and
\* document_1.txt, document_1_1.txt
OldPaths ==
    { PathJoin(output_dir, FirstFilename(<<"n", "_", "1">>)),
      PathJoin(output_dir, FirstFilename(DocumentName(1))),
      PathJoin(output_dir, NumberedFilename(DocumentName(1), 1)) }
        \cup { PathJoin(output_dir, NumberedFilename(<<"n", "_", "1">>, k)) : k \in 1..MaxOld }

LoopInit ==
    /\ template_content = TemplateFile(<<"t", "3">>).text
    /\ current_delimiters = DEFAULT_DELIMITERS
    /\ placeholders = ExtractPlaceholders(template_content, current_delimiters)
    /\ csv_data = ParsedRows(CsvFile(<<"c", "3">>))
    /\ errors = <<>>
    /\ dir_exists = TRUE
    /\ \E S \in SUBSET OldPaths : files = [p \in S |-> OldText]
    /\ now = 35999
    /\ call = Called("load_template", << <<"t", "3">> >>, "True")
    /\ calls = 2
    /\ \E filename_field \in FieldChoices :
         frame = [NoFrame EXCEPT !.pc = "for", !.i = 1, !.filename_field = filename_field]

\* counter += 1 left out
NextCounter_Stuck(counter) == counter

\* counter += 1
NextCounter(counter) == counter + 1

\* lines 91-102: the next row is merged and named, and the first path is built;
\* a row that raises is logged and left
row_begin ==
    /\ frame.pc = "for"
    /\ frame.i <= Len(csv_data)
    /\ LET row == csv_data[frame.i] IN
       \E outcome \in MergeOutcomes :
         IF outcome = "merge_error"
         THEN /\ errors' = Record(errors, RowErr(frame.i, MergeExc))
              /\ frame' = [frame EXCEPT !.i = @ + 1]
         ELSE IF UseField(frame.filename_field, row) /\ row[frame.filename_field] = None
         THEN /\ errors' = Record(errors, RowErr(frame.i, StripExc))
              /\ frame' = [frame EXCEPT !.i = @ + 1]
         ELSE LET base_filename == IF UseField(frame.filename_field, row)
                                   THEN FieldBase(row[frame.filename_field])
                                   ELSE DocumentName(frame.i)
              IN  /\ frame' = [frame EXCEPT
                        !.pc = "while",
                        !.content = MergeTemplate(template_content, placeholders,
                                                  current_delimiters, row),
                        !.base_filename = base_filename,
                        !.output_path = PathJoin(output_dir, FirstFilename(base_filename)),
                        !.counter = 1]
                  /\ UNCHANGED errors
    /\ UNCHANGED <<template_content, csv_data, placeholders, current_delimiters,
                   dir_exists, files, now, call, calls>>

\* lines 103-106: os.path.exists(output_path) is true, the next name is built
probe ==
    /\ frame.pc = "while"
    /\ Exists(files, frame.output_path)
    /\ frame' = [frame EXCEPT
            !.output_path = PathJoin(output_dir,
                                     NumberedFilename(frame.base_filename, frame.counter)),
            !.counter = NextCounter(frame.counter)]
    /\ UNCHANGED <<template_content, csv_data, placeholders, current_delimiters, errors,
                   dir_exists, files, now, call, calls>>

\* lines 103, 108-112: os.path.exists(output_path) is false, the file is written
write_row ==
    /\ frame.pc = "while"
    /\ ~Exists(files, frame.output_path)
    /\ \E outcome \in WriteOutcomes :
         IF outcome = "write_error"
         THEN /\ files' = WriteFile(files, frame.output_path, <<>>)
              /\ errors' = Record(errors, RowErr(frame.i, WriteExc))
              /\ frame' = [frame EXCEPT
                      !.pc = "for", !.i = @ + 1,
                      !.writes = Append(@, Written(frame.i, frame.base_filename,
                                                   frame.output_path, files, FALSE))]
         ELSE /\ files' = WriteFile(files, frame.output_path, frame.content)
              /\ frame' = [frame EXCEPT
                      !.pc = "for", !.i = @ + 1, !.success_count = @ + 1,
                      !.writes = Append(@, Written(frame.i, frame.base_filename,
                                                   frame.output_path, files, TRUE))]
              /\ UNCHANGED errors
    /\ UNCHANGED <<template_content, csv_data, placeholders, current_delimiters,
                   dir_exists, now, call, calls>>

\* lines 114-115: the rows are done, the call returns
return_individual ==
    /\ frame.pc = "for"
    /\ frame.i > Len(csv_data)
    /\ frame' = [frame EXCEPT !.pc = "done"]
    /\ call' = [Called("generate_output", <<"separate", frame.filename_field>>,
                        IndividualResult(frame.success_count))
                   EXCEPT !.writes = frame.writes]
    /\ calls' = calls + 1
    /\ UNCHANGED <<template_content, csv_data, placeholders, current_delimiters, errors,
                   dir_exists, files, now>>

LoopNext ==
    \/ row_begin
    \/ probe
    \/ write_row
    \/ return_individual

\* the call runs on one thread that nothing suspends: a statement that can be
\* executed is executed
LoopSpec == LoopInit /\ [][LoopNext]_vars /\ WF_vars(LoopNext)

(***************************************************************************)
(* Properties.                                                             *)
(***************************************************************************)
\* s is an initial segment of t
IsPrefix(s, t) == Len(s) <= Len(t) /\ SubSeq(t, 1, Len(s)) = s

\* the entries a step appends to the error log
Appended == SubSeq(errors', Len(errors) + 1, Len(errors'))

\* the step is a load that returns False
FailedLoad == call'.op \in {"load_template", "load_csv_data"} /\ call'.ret = "False"

\* C1: a load that returns False leaves template_content, current_delimiters,
\* placeholders and csv_data as they were, and only appends to the error log.
C1_FailedLoadKeepsState ==
    [][FailedLoad =>
         /\ UNCHANGED <<template_content, current_delimiters, placeholders, csv_data>>
         /\ IsPrefix(errors, errors')]_vars

\* the step is a generate_output call made while the template or the rows are empty
NotReadyCall ==
    call'.op = "generate_output" /\ (template_content = <<>> \/ csv_data = <<>>)

\* C2: generate_output with an empty template or no rows returns False, appends
\* one "not loaded" entry to the error log and leaves the output directory alone:
\* it is not created, and no file is created or modified.
C2_NotReadyTouchesNothing ==
    [][NotReadyCall =>
         /\ call'.ret = "False"
         /\ Len(Appended) = 1
         /\ IsPrefix(errors, errors')
         /\ Appended[1].msg \in {"No template loaded", "No CSV data loaded"}
         /\ Appended[1].msg = "No template loaded" <=> template_content = <<>>
         /\ UNCHANGED <<dir_exists, files>>]_vars

\* a template is loaded, no rows are, and generate_output has just refused to run
\* on a disk that still has no output directory
C2_Witness ==
    /\ call.op = "generate_output"
    /\ call.ret = "False"
    /\ template_content # <<>>
    /\ csv_data = <<>>
    /\ errors # <<>>
    /\ errors[Len(errors)].msg = "No CSV data loaded"
    /\ ~dir_exists
    /\ files = <<>>

\* the step is a generate_output call in individual mode that got past the
\* "not loaded" test
IndividualRun ==
    /\ call'.op = "generate_output"
    /\ call'.args[1] # "combined"
    /\ template_content # <<>>
    /\ csv_data # <<>>

\* the k-th candidate path for a base name: name.txt, name_1.txt, name_2.txt, ...
Candidate(base_filename, k) ==
    PathJoin(output_dir,
             IF k = 0 THEN FirstFilename(base_filename)
             ELSE NumberedFilename(base_filename, k))

\* the paths in use when the i-th file of the run is opened: those on disk
\* before the call and those the run has opened so far
InUseBefore(i) == DOMAIN files \cup { call'.writes[j].path : j \in 1..(i - 1) }

\* C3: individual mode never overwrites.  Every file on disk before the call is
\* still there with its content; every file the run opens is a new path, taken
\* by no earlier row of the run; the path is the first unused one of name.txt,
\* name_1.txt, name_2.txt, ...; and what a row wrote is still there at the end.
C3_NeverOverwrites ==
    [][IndividualRun =>
         LET w == call'.writes IN
         /\ \A p \in DOMAIN files : p \in DOMAIN files' /\ files'[p] = files[p]
         /\ DOMAIN files' = DOMAIN files \cup { w[i].path : i \in 1..Len(w) }
         /\ \A i \in 1..Len(w) :
              /\ w[i].path \notin InUseBefore(i)
              /\ \E k \in 0..Cardinality(InUseBefore(i)) :
                   /\ w[i].path = Candidate(w[i].base, k)
                   /\ \A j \in 0..(k - 1) : Candidate(w[i].base, j) \in InUseBefore(i)
              /\ w[i].done =>
                   files'[w[i].path] =
                       MergeTemplate(template_content, placeholders, current_delimiters,
                                     csv_data[w[i].row])]_vars

\* two rows of one run share a base name whose name.txt and name_2.txt were on
\* disk: the first went to name_1.txt and the second to name_3.txt, and the old
\* files still hold what they held
C3_Witness ==
    /\ call.op = "generate_output"
    /\ call.args[1] = "separate"
    /\ Len(call.writes) = 2
    /\ call.writes[1].base = call.writes[2].base
    /\ call.writes[1].path = Candidate(call.writes[1].base, 1)
    /\ call.writes[2].path = Candidate(call.writes[1].base, 3)
    /\ call.writes[1].done /\ call.writes[2].done
    /\ Candidate(call.writes[1].base, 0) \in DOMAIN files
    /\ files[Candidate(call.writes[1].base, 0)] = OldText
    /\ files[Candidate(call.writes[1].base, 2)] = OldText

\* the call recorded in c is a combined-mode generate_output that returned True
CombinedSuccess(c) ==
    c.op = "generate_output" /\ c.args[1] = "combined" /\ c.ret = "True"

\* C4: two successful combined-mode runs write two different paths (stated for
\* two runs in a row), so the second does not overwrite the first's file.
C4_CombinedRunsNeverCollide ==
    [][(CombinedSuccess(call) /\ CombinedSuccess(call')) =>
         /\ call'.writes[1].path # call.writes[1].path
         /\ call'.writes[1].fresh]_vars

\* the rows a run failed on, read off the entries it appended
FailedRows == { Appended[j].row : j \in 1..Len(Appended) }

\* the rows a run wrote, read off the files it completed
WrittenRows == { call'.writes[j].row : j \in { m \in 1..Len(call'.writes) : call'.writes[m].done } }

\* C5: in individual mode every row is attempted, in order: a row either is
\* written or appends exactly one entry tagged with its 1-based index, the
\* entries and the files come in row order, successes + failures = number of
\* rows, and the call returns True exactly when some row was written.
C5_RowFailuresAreIsolated ==
    [][IndividualRun =>
         LET w == call'.writes
             n == Len(csv_data)
         IN  /\ IsPrefix(errors, errors')
             /\ \A j \in 1..Len(Appended) :
                  /\ Appended[j].msg = "Error processing row {i+1}: "
                  /\ Appended[j].row \in 1..n
             /\ \A j \in 1..(Len(Appended) - 1) : Appended[j].row < Appended[j + 1].row
             /\ \A j \in 1..(Len(w) - 1) : w[j].row < w[j + 1].row
             /\ FailedRows \cup WrittenRows = 1..n
             /\ FailedRows \cap WrittenRows = {}
             /\ Cardinality(WrittenRows) + Len(Appended) = n
             /\ \A j \in 1..Len(w) : w[j].done => w[j].path \in DOMAIN files'
             /\ call'.ret = "True" <=> WrittenRows # {}
             /\ call'.ret \in {"True", "False"}]_vars

\* the first row failed, the second was still written, and the call returned True
C5_Witness ==
    /\ call.op = "generate_output"
    /\ call.args[1] = "separate"
    /\ call.ret = "True"
    /\ Len(csv_data) = 2
    /\ errors # <<>>
    /\ errors[Len(errors)] = RowErr(1, WriteExc)
    /\ Len(call.writes) = 2
    /\ ~call.writes[1].done
    /\ call.writes[2].row = 2 /\ call.writes[2].done

\* the step is a generate_output call in combined mode that got past the
\* "not loaded" test
CombinedRun ==
    /\ call'.op = "generate_output"
    /\ call'.args[1] = "combined"
    /\ template_content # <<>>
    /\ csv_data # <<>>

\* the entries of a combined run that report a row, and the one that reports the write
RowEntries == SelectSeq(Appended, LAMBDA e : e.msg = "Error processing row {i+1}: ")
WriteEntries == SelectSeq(Appended, LAMBDA e : e.msg = "Error writing combined file: ")

\* C6: combined mode returns True exactly when some row merged and the one
\* write succeeded.  When every row fails, the disk is left as it was (no file
\* is created) and the call returns False; when the write fails, one entry
\* reports it and the call returns False however many rows merged; when the
\* call returns True the file is on disk.
C6_CombinedResult ==
    [][CombinedRun =>
         LET n == Len(csv_data)
             merged_rows == n - Len(RowEntries)
         IN  /\ IsPrefix(errors, errors')
             /\ Len(Appended) = Len(RowEntries) + Len(WriteEntries)
             /\ Len(WriteEntries) <= 1
             /\ merged_rows >= 0
             /\ call'.ret = "True" <=> (merged_rows > 0 /\ WriteEntries = <<>>)
             /\ call'.ret \in {"True", "False"}
             /\ merged_rows = 0 => (files' = files /\ WriteEntries = <<>>)
             /\ WriteEntries # <<>> => Appended[Len(Appended)] = WriteEntries[1]
             /\ call'.ret = "True" =>
                  /\ CombinedPath(now') \in DOMAIN files'
                  /\ files'[CombinedPath(now')] # <<>>
             /\ \A p \in DOMAIN files' \ {CombinedPath(now')} :
                  p \in DOMAIN files /\ files'[p] = files[p]]_vars

\* every row merged (the run appended no row entry), the write of the combined
\* file failed, and the call returned False
C6_Witness ==
    /\ call.op = "generate_output"
    /\ call.args[1] = "combined"
    /\ call.ret = "False"
    /\ Len(csv_data) = 2
    /\ Len(errors) = 1
    /\ errors[1] = Err("Error writing combined file: ", WriteExc)

\* the rows of the file a load_csv_data step was pointed at
RowsRead == ParsedRows(CsvFile(call'.args[1]))

\* the step is a load_csv_data call on a readable file with at least one row
LoadWithRows ==
    /\ call'.op = "load_csv_data"
    /\ CsvFile(call'.args[1]).kind = "text"
    /\ RowsRead # <<>>

\* the placeholders that are no key of the first row read, in list order
MissingFromFirstRow ==
    SelectSeq(placeholders, LAMBDA ph : ph \notin DOMAIN RowsRead[1])

\* C7: header validation looks at the first row only.  A load of a non-empty
\* row sequence returns True exactly when every placeholder is a key of row 1,
\* and then appends nothing; otherwise it appends exactly one entry, which lists
\* every missing name, in placeholder-list order, joined by ", ".
C7_HeaderValidation ==
    [][LoadWithRows =>
         /\ call'.ret = "True" <=>
                \A j \in 1..Len(placeholders) : placeholders[j] \in DOMAIN RowsRead[1]
         /\ call'.ret = "True" => errors' = errors
         /\ call'.ret # "True" =>
                /\ call'.ret = "False"
                /\ errors' = Append(errors,
                                    [msg |-> "CSV missing required columns: ", row |-> 0,
                                     arg |-> JoinWith(<<",", " ">>, MissingFromFirstRow)])]_vars

\* a load has just failed validation with some placeholders present in the first
\* row and more than one missing
C7_Witness ==
    /\ call.op = "load_csv_data"
    /\ call.ret = "False"
    /\ csv_data # <<>>
    /\ errors # <<>>
    /\ errors[Len(errors)].msg = "CSV missing required columns: "
    /\ \E j \in 1..Len(placeholders) : placeholders[j] \in DOMAIN csv_data[1]
    /\ Cardinality({ j \in 1..Len(placeholders) :
                        placeholders[j] \notin DOMAIN csv_data[1] }) > 1

\* the step is a load_csv_data call on a readable file that parses to no rows
LoadWithoutRows ==
    /\ call'.op = "load_csv_data"
    /\ CsvFile(call'.args[1]).kind = "text"
    /\ RowsRead = <<>>

\* C8: a data source that parses to no rows is rejected before validation: the
\* load returns False and appends exactly one entry, the "no data" one, and no
\* "missing required columns" entry, whatever the placeholder list is.
C8_EmptyDataRejected ==
    [][LoadWithoutRows =>
         /\ call'.ret = "False"
         /\ errors' = Append(errors, [msg |-> "CSV file contains no data", row |-> 0,
                                      arg |-> <<>>])]_vars

\* a header-only file has just been rejected while the placeholder list was not empty
C8_Witness ==
    /\ call.op = "load_csv_data"
    /\ call.ret = "False"
    /\ CsvFile(call.args[1]).kind = "text"
    /\ ParsedRows(CsvFile(call.args[1])) = <<>>
    /\ placeholders # <<>>
    /\ errors # <<>>
    /\ errors[Len(errors)].msg = "CSV file contains no data"

\* C9: the error log is append-only.  Every call but clear_errors leaves the log
\* it found as a prefix of the log it leaves; get_errors returns the whole log
\* and leaves it as it is; clear_errors empties it.
C9_LogAppendOnly ==
    [][/\ call'.op # "clear_errors" => IsPrefix(errors, errors')
       /\ call'.op = "get_errors" => (call'.value = errors /\ errors' = errors)
       /\ call'.op = "clear_errors" => errors' = <<>>]_vars

\* a call has just appended a third entry behind two older ones
C9_Witness ==
    /\ Len(errors) = 3
    /\ call.op \in {"load_template", "load_csv_data", "generate_output"}
    /\ call.ret = "False"
    /\ errors[1] # errors[3]

\* C10: the placeholder list is what extraction gives for the current template
\* text and the current delimiters.
C10_PlaceholdersCurrent ==
    placeholders = ExtractPlaceholders(template_content, current_delimiters)

\* C11: both delimiters are non-empty strings in every state, whatever
\* set_delimiters was called with.
C11_DelimitersNonEmpty ==
    current_delimiters[1] # <<>> /\ current_delimiters[2] # <<>>

\* the places at or after p where a start...end substring begins: the start
\* delimiter is there and the end delimiter occurs somewhere behind it
Openings(text, p, start, end) ==
    { q \in p..Len(text) :
        /\ StartsAt(text, q, start)
        /\ \E k \in (q + Len(start))..Len(text) : StartsAt(text, k, end) }

RECURSIVE ShortestMatches(_, _, _, _)
\* the names of the leftmost, shortest, non-overlapping start...end substrings
\* of text from position p on, a name being any characters at all
ShortestMatches(text, p, start, end) ==
    IF Openings(text, p, start, end) = {} THEN <<>>
    ELSE LET q == SetMin(Openings(text, p, start, end))
             k == SetMin({ j \in (q + Len(start))..Len(text) : StartsAt(text, j, end) })
         IN  <<SubSeq(text, q + Len(start), k - 1)>>
                 \o ShortestMatches(text, k + Len(end), start, end)

\* the index of the first occurrence of x in the list
FirstIndex(list, x) == SetMin({ i \in 1..Len(list) : list[i] = x })

\* out is list without its repetitions, in first-occurrence order
IsFirstOccurrences(out, list) ==
    /\ { out[i] : i \in 1..Len(out) } = { list[i] : i \in 1..Len(list) }
    /\ \A i, j \in 1..Len(out) :
          i < j => (out[i] # out[j] /\ FirstIndex(list, out[i]) < FirstIndex(list, out[j]))

\* C12: for non-empty delimiters, extraction returns the names of the leftmost
\* shortest start...end substrings of the whole text, scanned left to right
\* without overlap, a name being any characters, newlines included, with
\* repetitions removed and first-occurrence order kept.
C12_ExtractionFindsAllNames ==
    (/\ call.op = "_extract_placeholders"
     /\ current_delimiters[1] # <<>>
     /\ current_delimiters[2] # <<>>)
        => IsFirstOccurrences(placeholders,
                              ShortestMatches(template_content, 1, current_delimiters[1],
                                              current_delimiters[2]))

RECURSIVE Substituted(_, _, _, _)
\* text from position p on with every occurrence of old replaced by new, read
\* character by character (an empty old occurs before every character and at
\* the end)
Substituted(text, p, old, new) ==
    IF p > Len(text) THEN (IF old = <<>> THEN new ELSE <<>>)
    ELSE IF old = <<>> THEN new \o <<text[p]>> \o Substituted(text, p + 1, old, new)
    ELSE IF StartsAt(text, p, old) THEN new \o Substituted(text, p + Len(old), old, new)
    ELSE <<text[p]>> \o Substituted(text, p + 1, old, new)

\* what a row puts in place of a name: its value as text, or name_NOT_FOUND
ValueText(data, name) ==
    IF name \notin DOMAIN data
    THEN name \o <<"_", "N", "O", "T", "_", "F", "O", "U", "N", "D">>
    ELSE IF data[name] = None THEN <<"N", "o", "n", "e">>
    ELSE data[name]

RECURSIVE WorkingCopy(_, _)
\* the working copy after the first k placeholders have been substituted
WorkingCopy(k, data) ==
    IF k = 0 THEN template_content
    ELSE Substituted(WorkingCopy(k - 1, data), 1,
                     current_delimiters[1] \o placeholders[k] \o current_delimiters[2],
                     ValueText(data, placeholders[k]))

RECURSIVE PassesDone(_, _)
\* the same with each pass taken as one str.replace, which also covers the
\* long working copies an empty token makes
PassesDone(k, data) ==
    IF k = 0 THEN template_content
    ELSE Replace(PassesDone(k - 1, data),
                 current_delimiters[1] \o placeholders[k] \o current_delimiters[2],
                 ValueText(data, placeholders[k]))

\* C13: the merge of a row is the left-to-right fold over the placeholder list:
\* each pass replaces, in the working copy the earlier passes left, every
\* occurrence of start+name+end by the row's value or by name_NOT_FOUND.  So a
\* value that is the token of a later placeholder is replaced in its turn.
C13_MergeIsLeftFold ==
    call.op = "_merge_template" =>
        /\ call.value = PassesDone(Len(placeholders), call.args[1])
        /\ (current_delimiters[1] # <<>> /\ current_delimiters[2] # <<>>)
              => call.value = WorkingCopy(Len(placeholders), call.args[1])
        /\ (/\ template_content = TextTwoShort
            /\ current_delimiters = << <<"<">>, <<">">> >>
            /\ Ka \in DOMAIN call.args[1]
            /\ call.args[1][Ka] = <<"<", "b", ">">>
            /\ call.args[1][Kb] = <<"y">>) => call.value = <<"y", "y">>

\* "<a><b>" merged with a row whose value for a is "<b>" and for b is "y": the
\* text the first pass brought in was replaced by the second
C13_Witness ==
    /\ call.op = "_merge_template"
    /\ template_content = TextTwoShort
    /\ placeholders = <<Ka, Kb>>
    /\ Ka \in DOMAIN call.args[1]
    /\ call.args[1][Ka] = <<"<", "b", ">">>
    /\ call.value = <<"y", "y">>

\* start+name+end
Token(name) == current_delimiters[1] \o name \o current_delimiters[2]

\* how many times w occurs in text (every position counts)
CountIn(text, w) == Cardinality({ q \in 1..(Len(text) + 1) : StartsAt(text, q, w) })

\* the characters of the two delimiters
DelimiterChars ==
    { current_delimiters[1][i] : i \in 1..Len(current_delimiters[1]) }
        \cup { current_delimiters[2][i] : i \in 1..Len(current_delimiters[2]) }

\* the text holds no character of a delimiter
DelimiterFree(text) == \A i \in 1..Len(text) : text[i] \notin DelimiterChars

\* the template holds the token of each of its placeholders exactly once
EachPlaceholderOnce ==
    \A j \in 1..Len(placeholders) : CountIn(template_content, Token(placeholders[j])) = 1

\* the row has a value for each placeholder
RowSupplies(data) == \A j \in 1..Len(placeholders) : placeholders[j] \in DOMAIN data

\* the positions of the template that lie inside the token of a placeholder
InsideTokens ==
    { p \in 1..Len(template_content) :
        \E j \in 1..Len(placeholders) :
            \E q \in 1..p : /\ StartsAt(template_content, q, Token(placeholders[j]))
                             /\ p < q + Len(Token(placeholders[j])) }

RECURSIVE TokensFilled(_, _)
\* the template from position p on with each token replaced, in one pass over
\* the template, by the row's value for its name
TokensFilled(p, data) ==
    IF p > Len(template_content) THEN <<>>
    ELSE IF \E j \in 1..Len(placeholders) :
                StartsAt(template_content, p, Token(placeholders[j]))
    THEN LET j == CHOOSE j \in 1..Len(placeholders) :
                      StartsAt(template_content, p, Token(placeholders[j]))
         IN  ValueText(data, placeholders[j])
                 \o TokensFilled(p + Len(Token(placeholders[j])), data)
    ELSE <<template_content[p]>> \o TokensFilled(p + 1, data)

\* the call is a merge, with non-empty delimiters, of a template that holds
\* each placeholder once and a row that has every value
RoundTripCase ==
    /\ call.op = "_merge_template"
    /\ current_delimiters[1] # <<>> /\ current_delimiters[2] # <<>>
    /\ EachPlaceholderOnce
    /\ RowSupplies(call.args[1])

\* C14 as stated: whenever the template holds each placeholder once and the row
\* has every value, the merged text holds neither delimiter, and each value
\* stands exactly once in it, at the position of its placeholder.
C14_RoundTrip ==
    RoundTripCase =>
        /\ CountIn(call.value, current_delimiters[1]) = 0
        /\ CountIn(call.value, current_delimiters[2]) = 0
        /\ call.value = TokensFilled(1, call.args[1])
        /\ \A j \in 1..Len(placeholders) :
              CountIn(call.value, ValueText(call.args[1], placeholders[j])) = 1

\* C14 amended: when, besides, neither the template's text outside the tokens
\* nor any value holds a character of a delimiter, the merged text holds
\* neither delimiter and is the template with each token replaced by its value.
C14_RoundTripOfPlainText ==
    (/\ RoundTripCase
     /\ \A p \in (1..Len(template_content)) \ InsideTokens :
           template_content[p] \notin DelimiterChars
     /\ \A j \in 1..Len(placeholders) :
           DelimiterFree(ValueText(call.args[1], placeholders[j])))
        => /\ CountIn(call.value, current_delimiters[1]) = 0
           /\ CountIn(call.value, current_delimiters[2]) = 0
           /\ call.value = TokensFilled(1, call.args[1])

\* "{{a}}-{{b}}" merged with a = "x", b = "y" has given "x-y"
C14_Witness ==
    /\ call.op = "_merge_template"
    /\ template_content = TextTwoDefault
    /\ current_delimiters = DEFAULT_DELIMITERS
    /\ placeholders = <<Ka, Kb>>
    /\ RowSupplies(call.args[1])
    /\ call.value = <<"x", "-", "y">>

\* the step is a generate_output call that completed at least one document
WroteDocument ==
    /\ call'.op = "generate_output"
    /\ \E j \in 1..Len(call'.writes) : call'.writes[j].done

\* C15: generate_output writes a document only when header validation holds
\* for the current template, delimiters and rows: every name of the placeholder
\* list is a column of the first row.
C15_GeneratesOnlyValidated ==
    [][WroteDocument =>
         \A j \in 1..Len(placeholders) : placeholders[j] \in DOMAIN csv_data[1]]_vars

\* C16: generate_output is read-only on the session.  In either mode, whatever
\* it returns and whatever rows fail, the template text, the delimiters, the
\* placeholder list and the rows (each row, and their order) are after the call
\* what they were before it; the error log and the directory may change.
C16_GenerateReadsOnly ==
    [][call'.op = "generate_output" =>
         /\ template_content' = template_content
         /\ current_delimiters' = current_delimiters
         /\ placeholders' = placeholders
         /\ Len(csv_data') = Len(csv_data)
         /\ \A i \in 1..Len(csv_data) : csv_data'[i] = csv_data[i]]_vars

\* a combined run whose first row failed has written its file and returned
\* True, and the session still holds the template and both rows
C16_Witness ==
    /\ call.op = "generate_output"
    /\ call.args[1] = "combined"
    /\ call.ret = "True"
    /\ errors # <<>>
    /\ errors[Len(errors)] = RowErr(1, MergeExc)
    /\ Len(call.writes) = 1
    /\ template_content = TemplateFile(<<"t", "3">>).text
    /\ placeholders # <<>>
    /\ Len(csv_data) = 2

\* the step is an individual run into an empty directory that names no row by
\* a field: no field is given, or the rows have no such column
PositionalRun ==
    /\ IndividualRun
    /\ files = <<>>
    /\ \/ call'.args[2] = None
       \/ \A i \in 1..Len(csv_data) : call'.args[2] \notin DOMAIN csv_data[i]

\* document_i.txt in the output directory
DocumentPath(i) ==
    <<"o", "u", "t", "p", "u", "t", "/", "d", "o", "c", "u", "m", "e", "n", "t", "_">>
        \o Decimal(i) \o <<".", "t", "x", "t">>

\* the merged text of row i
MergedRow(i) ==
    MergeTemplate(template_content, placeholders, current_delimiters, csv_data[i])

\* the rows a combined run merged: those it appended no row entry for
MergedInOrder ==
    SelectSeq([i \in 1..Len(csv_data) |-> i],
              LAMBDA i : \A j \in 1..Len(Appended) :
                            ~(Appended[j].msg = "Error processing row {i+1}: "
                              /\ Appended[j].row = i))

\* a line of 80 "=" with a line break before and after
SeparatorLine == <<NL>> \o [i \in 1..80 |-> "="] \o <<NL>>

RECURSIVE Blocks(_)
\* for the rows listed: each row's merged text and, on a new line, the
\* separator; a line break between one row's block and the next
Blocks(rows) ==
    IF rows = <<>> THEN <<>>
    ELSE MergedRow(Head(rows)) \o <<NL>> \o SeparatorLine
             \o (IF Len(rows) = 1 THEN <<>> ELSE <<NL>> \o Blocks(Tail(rows)))

\* C17: output follows row order.  An individual run that names no row by a
\* field, into an empty directory, writes row i to document_i.txt, holding the
\* merge of row i, so N rows written are N files; a combined run writes the
\* merged texts of the rows that merged, in csv_data order, each followed by a
\* separator, and nothing for a row that failed.
C17_OutputFollowsRowOrder ==
    [][/\ PositionalRun =>
            LET w == call'.writes IN
            /\ \A j \in 1..Len(w) :
                 /\ w[j].path = DocumentPath(w[j].row)
                 /\ w[j].done => files'[w[j].path] = MergedRow(w[j].row)
            /\ \A j, k \in 1..Len(w) : j < k => w[j].row < w[k].row
            /\ Cardinality(DOMAIN files') = Len(w)
       /\ (CombinedRun /\ call'.ret = "True") =>
            /\ MergedInOrder # <<>>
            /\ files'[call'.writes[1].path] = Blocks(MergedInOrder)]_vars

\* two rows written into an empty directory without a filename field:
\* document_1.txt and document_2.txt hold the two different merges
C17_Witness ==
    /\ call.op = "generate_output"
    /\ call.args = <<"separate", None>>
    /\ call.ret = "True"
    /\ Len(call.writes) = 2
    /\ call.writes[1].done /\ call.writes[2].done
    /\ DOMAIN files = {DocumentPath(1), DocumentPath(2)}
    /\ files[DocumentPath(1)] # files[DocumentPath(2)]
    /\ placeholders = <<Ka, Kb>>

\* C18: no failure is silent, and no successful load logs.  A load_template,
\* load_csv_data or generate_output call that returns False has appended at
\* least one entry to the log it found; a load that returns True has left the
\* log as it was.
C18_FailuresAreLogged ==
    [][/\ (/\ call'.op \in {"load_template", "load_csv_data", "generate_output"}
            /\ call'.ret = "False")
              => (Len(errors') > Len(errors) /\ SubSeq(errors', 1, Len(errors)) = errors)
       /\ (/\ call'.op \in {"load_template", "load_csv_data"}
            /\ call'.ret = "True")
              => errors' = errors]_vars

\* an individual run on a loaded template and two rows has returned False:
\* both rows failed and each left its entry
C18_Witness ==
    /\ call.op = "generate_output"
    /\ call.args[1] = "separate"
    /\ call.ret = "False"
    /\ template_content # <<>>
    /\ Len(csv_data) = 2
    /\ Len(errors) >= 2
    /\ errors[Len(errors) - 1].row = 1
    /\ errors[Len(errors)].row = 2

\* C19: the search for an unused name ends.  With finitely many files in the
\* directory and no other writer, a probe is never made with a counter beyond
\* the number of files plus one, and every individual run over its rows comes
\* to its return.
C19_SearchTerminates ==
    /\ [](frame.pc = "while" => frame.counter <= Cardinality(DOMAIN files) + 1)
    /\ <>(frame.pc = "done" /\ call.op = "generate_output"
                             /\ call.ret \in {"True", "False"})

\* a run has returned whose last row found its name only at the fifth probe:
\* n_1.txt and n_1_1.txt to n_1_3.txt were taken
C19_Witness ==
    /\ frame.pc = "done"
    /\ call.ret = "True"
    /\ frame.counter >= 5
    /\ Len(frame.writes) = 2
====
